---- MODULE Spec2Model ----
(***************************************************************************)
(* A model of the add-files pipeline of file_code_tagger:                  *)
(*   pipeline/add_files_pipeline.py  (selection, per-file loop, labeling)  *)
(*   db/models.py                    (File, FileLocation, FilingTag,       *)
(*                                    FileTagLabel, FileContent)           *)
(*   add_file_tags.py                (the taxonomy import)                 *)
(*   text_extraction/extraction_utils.py (whitespace normalisation)        *)
(*                                                                         *)
(* Strings are sequences of one-character strings, so that substring,      *)
(* prefix and whitespace operations are computed and not assumed.          *)
(*                                                                         *)
(* The specifications share the variables and the actions:                 *)
(*   SpecLabel  label_file_using_tag alone, on every acyclic taxonomy      *)
(*   Spec       any sequence of batch runs and label calls                 *)
(*   SpecRun    one batch, with the history of each iteration recorded     *)
(*   SpecResume a batch that is killed and started again                   *)
(*   SpecPolicy the exclusion check alone                                  *)
(*   SpecExcl   one batch on every table of exclusion rules                *)
(*   SpecExtract the choice of the extractor for a file name               *)
(*   SpecNormalize the normalisation of an extracted text                  *)
(*   SpecRace   two callers of label_file_using_tag beside each other      *)
(*   SpecWalk   one call of label_file_using_tag turn by turn, with        *)
(*              fairness                                                   *)
(***************************************************************************)
EXTENDS Integers, Sequences, FiniteSets, Bags, TLC

VARIABLES
    parent,      \* filing_tags.parent_label: tag -> parent tag, None for a root
    labels,      \* file_tag_labels: the committed rows, a bag of records
    contents,    \* file_contents: the committed rows, a set of records
    pc,          \* where the process is: "idle", "loop" (top of the for loop), "label"
    mode,        \* "none", "tag" (process_files_given_tag) or "location"
    opts,        \* the arguments of the running batch
    files,       \* the list the selection query returned (.all())
    idx,         \* enumerate(files, start=1): the file being processed
    extra,       \* the tags still to be labeled for files[idx]
    session,     \* the SQLAlchemy session: "closed", "active", or "deactive" after a failed flush
    last,        \* what the most recent step did and was given (history)
    writers      \* the callers of label_file_using_tag that run beside each other,
                 \* each with a session of its own: where each is in the call

vars == <<parent, labels, contents, pc, mode, opts, files, idx, extra, session, last, writers>>

----------------------------------------------------------------------------
(* Bounds of the model *)

\* the tags of the taxonomies the Label Engine is run on
NumTags == 3
\* the rows that exist before the first step
MaxPrior == 1
\* the length of an extracted text
MaxTextLen == 2
\* text_length_threshold, the argument of the batch
Threshold == 2
\* the rows of path_patterns
MaxRules == 2

Tags == 1..NumTags

\* Python's None in a column or an argument: no tag, no parent, no cap
None == 0

----------------------------------------------------------------------------
(* Strings *)

SP == " "

Str3(a, b, c) == a \o b \o c

IsPrefix(p, s) == Len(p) <= Len(s) /\ SubSeq(s, 1, Len(p)) = p

\* Python's  sub in s
Contains(s, sub) ==
    \E i \in 0..(Len(s) - Len(sub)) : SubSeq(s, i + 1, i + Len(sub)) = sub

UpperLetters ==
    <<"A", "B", "C", "D", "E", "F", "G", "H", "I", "J", "K", "L", "M",
      "N", "O", "P", "Q", "R", "S", "T", "U", "V", "W", "X", "Y", "Z">>
LowerLetters ==
    <<"a", "b", "c", "d", "e", "f", "g", "h", "i", "j", "k", "l", "m",
      "n", "o", "p", "q", "r", "s", "t", "u", "v", "w", "x", "y", "z">>

LowerChar(c) ==
    IF \E i \in DOMAIN UpperLetters : UpperLetters[i] = c
    THEN LowerLetters[CHOOSE i \in DOMAIN UpperLetters : UpperLetters[i] = c]
    ELSE c

\* str.lower()
Lower(s) == [i \in 1..Len(s) |-> LowerChar(s[i])]

IsAlpha(c) == c \in {"F", "G", "X", "f", "g", "x", "a", "b", "c", "d", "e"}
IsDigit(c) == c \in {"1", "2", "7"}

----------------------------------------------------------------------------
(* The taxonomy: FilingTag rows *)

\* filing_tags.label of each tag
TagCodes == << <<"F">>, <<"F", "7">>, <<"F", "7", ".", "1">> >>

\* filing_tags.description of each tag
TagDescriptions == << <<"a">>, <<"b">>, <<"c">> >>

\* the tags import_filing_codes created
ImportedTags == DOMAIN TagCodes

label(t) == TagCodes[t]

\* FilingTag.full_tag_label_str: f"{label} - {description}".strip()
full_tag_label_str(t) == Str3(label(t), <<SP, "-", SP>>, TagDescriptions[t])

\* str.split('.')[0]
BeforeDot(code) ==
    LET dots == {i \in 1..Len(code) : code[i] = "."}
    IN  SubSeq(code, 1, (CHOOSE i \in dots : \A j \in dots : i <= j) - 1)

\* A rule that names the code itself as its parent.
WholeCode(code) == code

\* determine_parent_label: the parent label of a code, <<>> for "no parent"
determine_parent_label(code) ==
    IF Len(code) = 1 /\ IsAlpha(code[1]) THEN <<>>
    ELSE IF \E i \in 1..Len(code) : code[i] = "." THEN BeforeDot(code)
    ELSE LET digits == {i \in 2..Len(code) : IsDigit(code[i])}
         IN  IF digits = {} THEN <<>>
             ELSE SubSeq(code, 1, (CHOOSE i \in digits : \A j \in digits : i <= j) - 1)

\* import_filing_codes on the list of codes of a file: the parent_label
\* column of every imported tag (a label no tag has: no parent)
ImportTaxonomy(codes) ==
    [t \in DOMAIN codes |->
        LET pl == determine_parent_label(codes[t])
        IN  IF \E u \in DOMAIN codes : codes[u] = pl
            THEN CHOOSE u \in DOMAIN codes : codes[u] = pl
            ELSE None]

\* the taxonomy of the model: TagCodes imported
ImportedParent == ImportTaxonomy(TagCodes)

\* Codes a filing-code file may hold beside those of TagCodes
CodePool ==
    {TagCodes[t] : t \in DOMAIN TagCodes}
       \cup {<<"7">>, <<"F", ".">>, <<".", "1">>, <<"F", "7", "1">>, <<"F", "F">>}

\* The taxonomies import_filing_codes builds from NumTags distinct codes
ImportedTaxonomies ==
    {ImportTaxonomy(codes) :
        codes \in {c \in [Tags -> CodePool] : \A i, j \in Tags : c[i] = c[j] => i = j}}

\* The acyclic parent functions over Tags (a parent has a smaller index)
Forests == {p \in [Tags -> Tags \cup {None}] : \A t \in Tags : p[t] < t}

RECURSIVE Chain(_, _)
\* the tag and its ancestors, following FilingTag.parent up to the root
Chain(par, t) == IF t = None THEN {} ELSE {t} \cup Chain(par, par[t])

----------------------------------------------------------------------------
(* The Label Engine: label_file_using_tag *)

\* label_source: str = 'rule'
DefaultLabelSource == "rule"

\* FileTagLabel(file_id, tag, is_primary, label_source); split is left to
\* the default of its column
FileTagLabel(f, t, prim, src) ==
    [file_id |-> f, tag |-> t, is_primary |-> prim, label_source |-> src, split |-> "train"]

\* A walk that inserts without looking for an existing row.
NeverExists(tbl, f, t) == FALSE

\* db_session.query(FileTagLabel).filter_by(file_id=..., tag=...).first()
ExistsLabel(tbl, f, t) ==
    \E r \in BagToSet(tbl) : r.file_id = f /\ r.tag = t

\* is_primary=(current_tag.parent is None)
IsPrimaryOf(par, cur, requested) == par[cur] = None

RECURSIVE WalkOverwrite(_, _, _, _, _, _)
\* A walk that writes its row over the row it finds.
WalkOverwrite(tbl, par, f, cur, requested, src) ==
    IF cur = None THEN tbl
    ELSE LET others == {r \in BagToSet(tbl) : ~ (r.file_id = f /\ r.tag = cur)}
         IN  WalkOverwrite(
                SetToBag(others \cup {FileTagLabel(f, cur, IsPrimaryOf(par, cur, requested), src)}),
                par, f, par[cur], requested, src)

RECURSIVE WalkStopAtExisting(_, _, _, _, _, _)
\* A walk that ends at the first tag that already has a row.
WalkStopAtExisting(tbl, par, f, cur, requested, src) ==
    IF cur = None THEN tbl
    ELSE IF ExistsLabel(tbl, f, cur) THEN tbl
    ELSE WalkStopAtExisting(
            tbl (+) SetToBag({FileTagLabel(f, cur, IsPrimaryOf(par, cur, requested), src)}),
            par, f, par[cur], requested, src)

RECURSIVE Walk(_, _, _, _, _, _)
\* The while loop of label_file_using_tag.  tbl is what the session sees: the
\* committed rows and the rows added so far (every query autoflushes).
Walk(tbl, par, f, cur, requested, src) ==
    IF cur = None THEN tbl
    ELSE IF ExistsLabel(tbl, f, cur)
         THEN Walk(tbl, par, f, par[cur], requested, src)
         ELSE Walk(
                tbl (+) SetToBag({FileTagLabel(f, cur, IsPrimaryOf(par, cur, requested), src)}),
                par, f, par[cur], requested, src)

\* label_file_using_tag(db_session, file_obj, some_tag, label_source): the
\* table after the commit that ends the call
label_file_using_tag(tbl, par, f, t, src) == Walk(tbl, par, f, t, t, src)

\* The callers that run beside each other, each with its own session and
\* transaction (two batches, or a batch and an annotation tool)
Writers == {"a", "b"}

\* A caller outside label_file_using_tag.  In a call: cur is current_tag,
\* added the rows given to db_session.add, flushed those whose INSERT was
\* sent, visited the tags the loop has queried, commits the commits issued
NoWriter ==
    [status |-> "idle", file |-> 0, tag |-> None, cur |-> None,
     added |-> {}, flushed |-> {}, visited |-> <<>>, commits |-> 0]

NoWriters == [w \in Writers |-> NoWriter]

\* The flush of a session sends the INSERT of each added row; file_tag_labels
\* has the primary key (file_id, tag), so the INSERT of a key that a committed
\* row holds raises IntegrityError
FlushFails(tbl, rows) == \E r \in rows : ExistsLabel(tbl, r.file_id, r.tag)

\* ... and the INSERT of a key that an open transaction has inserted waits
\* for that transaction to end
FlushWaits(all, w) ==
    \E v \in Writers \ {w} :
       /\ all[v].status = "walking"
       /\ \E r \in all[w].added \ all[w].flushed, q \in all[v].flushed :
             r.file_id = q.file_id /\ r.tag = q.tag

----------------------------------------------------------------------------
(* The File Registry: File and FileLocation rows (read-only for the pipeline) *)

SLASH == "/"

\* "/".join(parts)
RECURSIVE JoinPath(_)
JoinPath(parts) ==
    IF parts = <<>> THEN <<>>
    ELSE IF Len(parts) = 1 THEN parts[1]
    ELSE parts[1] \o <<SLASH>> \o JoinPath(Tail(parts))

SegX == <<"X">>
SegXY == <<"X", "Y">>

\* file_locations.file_server_directories: forward slashes, no leading slash
DirLeaf == JoinPath(<<SegX, full_tag_label_str(1), full_tag_label_str(2), full_tag_label_str(3)>>)
DirInner == JoinPath(<<SegX, full_tag_label_str(1), full_tag_label_str(2)>>)
DirSibling == JoinPath(<<SegXY, full_tag_label_str(1)>>)

FileLocation(dirs, name) == [file_server_directories |-> dirs, filename |-> name]

MiB == 1024 * 1024

\* The cataloged files: File.size in bytes and File.locations in relationship order
Catalog ==
    << [size |-> 1 * MiB,   locations |-> << FileLocation(DirLeaf, <<"r">>) >>],
       [size |-> 300 * MiB, locations |-> << FileLocation(DirSibling, <<"s">>),
                                             FileLocation(DirInner, <<"s">>) >>] >>

\* files.id of the cataloged files
Files == DOMAIN Catalog

locations(f) == Catalog[f].locations

\* FileLocation.local_filepath(server_mount_path): mount / dirs / filename.
\* The mount point is the one-segment path "/m".
local_filepath(loc) ==
    <<SLASH, "m", SLASH>> \o loc.file_server_directories \o <<SLASH>> \o loc.filename

----------------------------------------------------------------------------
(* Text normalisation *)

NL == "\n"

\* The characters of the texts the extractors return in the batch model
TextChars == {"a", SP}

IsSpace(c) == c \in {SP, NL}

RECURSIVE SeqsUpTo(_)
SeqsUpTo(n) ==
    IF n = 0 THEN {<<>>}
    ELSE LET shorter == SeqsUpTo(n - 1)
         IN  shorter \cup {Append(s, c) : s \in {x \in shorter : Len(x) = n - 1}, c \in TextChars}

\* What an extractor can return
Texts == SeqsUpTo(MaxTextLen)

\* str.split(): the maximal runs of non-whitespace characters
RECURSIVE Split(_, _, _)
Split(text, word, acc) ==
    IF text = <<>> THEN (IF word = <<>> THEN acc ELSE Append(acc, word))
    ELSE IF IsSpace(Head(text))
         THEN Split(Tail(text), <<>>, IF word = <<>> THEN acc ELSE Append(acc, word))
         ELSE Split(Tail(text), Append(word, Head(text)), acc)

RECURSIVE JoinSpace(_)
JoinSpace(words) ==
    IF words = <<>> THEN <<>>
    ELSE IF Len(words) = 1 THEN words[1]
    ELSE words[1] \o <<SP>> \o JoinSpace(Tail(words))

RECURSIVE CollapsePairs(_)
\* A collapse that replaces each pair of spaces by one, in one pass.
CollapsePairs(text) ==
    IF Len(text) < 2 THEN text
    ELSE IF text[1] = SP /\ text[2] = SP
         THEN <<SP>> \o CollapsePairs(SubSeq(text, 3, Len(text)))
         ELSE <<text[1]>> \o CollapsePairs(Tail(text))

\* normalize_whitespace: " ".join(text.split())
normalize_whitespace(text) == JoinSpace(Split(text, <<>>, <<>>))

\* common_char_replacements: smart quotes to ASCII ("''" stands for a curly quote)
common_char_replacements(text) == [i \in 1..Len(text) |-> IF text[i] = "''" THEN "'" ELSE text[i]]

\* strip_diacritics: an accented letter ("e'") to its base letter
strip_diacritics(text) == [i \in 1..Len(text) |-> IF text[i] = "e'" THEN "e" ELSE text[i]]

\* normalize_unicode: canonical composition; every character here is composed already
normalize_unicode(text) == [i \in 1..Len(text) |-> text[i]]

\* lines 357-360 of _run_file_pipeline
Normalize(text) ==
    normalize_whitespace(normalize_unicode(strip_diacritics(common_char_replacements(text))))

\* Normalize(text) for every text an extractor returns (computed once)
Normalized == [t \in Texts |-> Normalize(t)]

\* A gate that lets every extracted text through.
GateAlwaysOpen(text, threshold) == TRUE

\* A gate that only asks for a text:  if text:
GateNonEmpty(text, threshold) == text # <<>>

\* if text and len(text) >= text_length_threshold
TextLongEnough(text, threshold) == text # <<>> /\ Len(text) >= threshold

----------------------------------------------------------------------------
(* Candidate selection: the two queries *)

DEFAULT_MAX_SIZE_MB == 200
DefaultLimit == 250

\* The values of n and max_size_mb a caller passes (None: no filter)
Limits == {1, DefaultLimit}
SizeCaps == {None, DEFAULT_MAX_SIZE_MB}

\* A query that keeps the files that have a Content row.
KeepEmbedded(cont, f) == TRUE

\* outerjoin(FileContent, File.hash == FileContent.file_hash)
\*   .filter(FileContent.file_hash == None)
NotEmbedded(cont, f) == ~ \E c \in cont : c.file_hash = f

\* File.size <= max_size_mb * 1024 * 1024
WithinSize(f, max_size_mb) ==
    max_size_mb = None \/ Catalog[f].size <= max_size_mb * 1024 * 1024

\* FileLocation.file_server_directories.ilike(f"%/{tag_obj.full_tag_label_str}%")
TagLocationMatches(loc, t) ==
    Contains(Lower(loc.file_server_directories), Lower(<<SLASH>> \o full_tag_label_str(t)))

\* or_(dirs == server_dirs_str, dirs.startswith(server_dirs_str + '/'))
ServerLocationMatches(loc, server_dirs_str) ==
    \/ loc.file_server_directories = server_dirs_str
    \/ IsPrefix(server_dirs_str \o <<SLASH>>, loc.file_server_directories)

\* db_session.query(File).join(FileLocation): a row per file and location
JoinedRows == UNION {{<<f, i>> : i \in DOMAIN locations(f)} : f \in Files}

\* The rows whose location passes the filter of each tag (computed once)
TagLocationRows ==
    [t \in ImportedTags |-> {r \in JoinedRows : TagLocationMatches(locations(r[1])[r[2]], t)}]

\* The joined (File, FileLocation) rows of the tag query after its filters
TaggedRows(cont, t, exclude_embedded, max_size_mb) ==
    {<<f, i>> \in TagLocationRows[t] :
        /\ (exclude_embedded => NotEmbedded(cont, f))
        /\ WithinSize(f, max_size_mb)}

\* extract_server_dirs(full_path, base_mount): the path relative to the mount,
\* given as its parts, without its last part; "." when nothing is left
extract_server_dirs(rel_parts) ==
    IF Len(rel_parts) > 1 THEN JoinPath(SubSeq(rel_parts, 1, Len(rel_parts) - 1))
    ELSE <<".">>

\* The server subtrees a location-mode run is started on (relative to the mount)
ServerLocations ==
    { <<SegX, full_tag_label_str(1)>>,
      <<SegX, full_tag_label_str(1), full_tag_label_str(2)>>,
      <<SegX, full_tag_label_str(1), full_tag_label_str(2), full_tag_label_str(3)>> }

\* str(server_dirs).rstrip('/') for each of them
TargetDirs == {extract_server_dirs(rp) : rp \in ServerLocations}

\* The rows whose location passes the filter of each target (computed once)
ServerLocationRows ==
    [d \in TargetDirs |-> {r \in JoinedRows : ServerLocationMatches(locations(r[1])[r[2]], d)}]

\* The joined rows of the server-location query after its filters
ServerRows(cont, server_dirs_str, exclude_embedded, max_size_mb) ==
    {<<f, i>> \in ServerLocationRows[server_dirs_str] :
        /\ (exclude_embedded => NotEmbedded(cont, f))
        /\ WithinSize(f, max_size_mb)}

Min(a, b) == IF a <= b THEN a ELSE b

\* The sequences that list every element of S once
Orderings(S) ==
    {q \in [1..Cardinality(S) -> S] : \A i, j \in 1..Cardinality(S) : q[i] = q[j] => i = j}

\* q.order_by(func.random()) if randomize, q.limit(n) and .all(): any n of the
\* rows (without ORDER BY the order is the database's choice, with random() it
\* is any order as well), then one File object per distinct file (the ORM
\* query returns each entity once)
QueryResults(rows, n, randomize) ==
    UNION {Orderings({r[1] : r \in kept}) :
             kept \in {k \in SUBSET rows :
                         Cardinality(k) = (IF n = None THEN Cardinality(rows)
                                           ELSE Min(n, Cardinality(rows)))}}

\* get_files_from_tagged_locations_query(...).all()
get_files_from_tagged_locations_query(cont, t, n, randomize, exclude_embedded, max_size_mb) ==
    QueryResults(TaggedRows(cont, t, exclude_embedded, max_size_mb), n, randomize)

\* get_files_from_server_locations_query(...).all()
get_files_from_server_locations_query(cont, server_dirs, n, randomize, exclude_embedded, max_size_mb) ==
    QueryResults(ServerRows(cont, server_dirs, exclude_embedded, max_size_mb), n, randomize)

----------------------------------------------------------------------------
(* File location resolution *)

RECURSIVE FirstIndex(_, _)
\* the first index of the sequence of booleans that holds TRUE, 0 if none
FirstIndex(hits, i) ==
    IF i > Len(hits) THEN 0 ELSE IF hits[i] THEN i ELSE FirstIndex(hits, i + 1)

\* tag.full_tag_label_str.lower() in loc.file_server_directories.lower(),
\* for every location and tag (computed once)
DirsContainTag ==
    [f \in Files |-> [i \in DOMAIN locations(f) |-> [t \in ImportedTags |->
        Contains(Lower(locations(f)[i].file_server_directories), Lower(full_tag_label_str(t)))]]]

\* loc.file_server_directories.startswith(target_dirs), for every location
\* and target (computed once)
DirsStartWith ==
    [f \in Files |-> [i \in DOMAIN locations(f) |-> [d \in TargetDirs |->
        IsPrefix(d, locations(f)[i].file_server_directories)]]]

\* A locator that does not ask whether the path exists.
LocateOffMount(f, t, present) ==
    FirstIndex([i \in DOMAIN locations(f) |-> DirsContainTag[f][i][t]], 1)

\* _locate_for_tag: the first location whose directories contain the tag's
\* string and whose path exists on the mount; 0 for (None, None, None)
locate_for_tag(f, t, present) ==
    FirstIndex([i \in DOMAIN locations(f) |-> DirsContainTag[f][i][t] /\ i \in present], 1)

\* _locate_for_location: the first location whose directories start with
\* target_dirs and whose path exists on the mount
locate_for_location(f, target_dirs, present) ==
    FirstIndex([i \in DOMAIN locations(f) |-> DirsStartWith[f][i][target_dirs] /\ i \in present], 1)

RECURSIVE SetToSeq(_)
\* the elements of a set of tags in the order of their labels
SetToSeq(S) ==
    IF S = {} THEN <<>>
    ELSE LET m == CHOOSE x \in S : \A y \in S : x <= y
         IN  <<m>> \o SetToSeq(S \ {m})

\* file_tags_from_path: the tags whose full_tag_label_str appears in the path
file_tags_from_path(pth) ==
    SetToSeq({t \in ImportedTags : Contains(Lower(pth), Lower(full_tag_label_str(t)))})

\* file_tags_from_path(path, session) for the path of every location (computed once)
PathTags ==
    [f \in Files |-> [i \in DOMAIN locations(f) |->
        file_tags_from_path(local_filepath(locations(f)[i]))]]

----------------------------------------------------------------------------
(* The path exclusion rules: PathPattern rows (read-only for the pipeline) *)

\* the contexts the two calls of _run_file_pipeline name
ExcludeContexts == {"add_files_embedding", "add_files_tagging"}

RECURSIVE fnmatch(_, _)
\* fnmatch.fnmatch(name, pat) on a POSIX host, for patterns of literal
\* characters, '?' (one character) and '*' (any run of characters)
fnmatch(name, pat) ==
    IF pat = <<>> THEN name = <<>>
    ELSE IF Head(pat) = "*"
         THEN fnmatch(name, Tail(pat)) \/ (name # <<>> /\ fnmatch(Tail(name), pat))
    ELSE /\ name # <<>>
         /\ (Head(pat) = "?" \/ Head(pat) = Head(name))
         /\ fnmatch(Tail(name), Tail(pat))

\* re.search(pattern, path) for the regex patterns of the model: a pattern
\* without metacharacters is searched as a substring, the unbalanced "("
\* raises re.error
re_search(pattern, path) ==
    IF pattern = <<"(">> THEN "error"
    ELSE IF Contains(path, pattern) THEN "match" ELSE "none"

\* PathPattern(pattern, pattern_type, treatment, metadata, enabled).  The
\* metadata column holds the contexts a rule is scoped to ({}: none given);
\* no code reads it.
PathPattern(pattern, pattern_type, treatment, metadata, enabled) ==
    [pattern |-> pattern, pattern_type |-> pattern_type, treatment |-> treatment,
     metadata |-> metadata, enabled |-> enabled]

\* PathPattern.get_active_patterns(session, treatment): filter_by(enabled=True),
\* filter_by(treatment=treatment)
AllPatterns(rules, treatment) == rules

get_active_patterns(rules, treatment) == {r \in rules : r.enabled /\ r.treatment = treatment}

RegexFailureExcludes(r, path) ==
    LET slashes == {i \in 1..Len(path) : path[i] = SLASH}
        filename == IF slashes = {} THEN path
                    ELSE SubSeq(path, (CHOOSE i \in slashes : \A j \in slashes : j <= i) + 1,
                                Len(path))
    IN  CASE r.pattern_type = "directory" -> fnmatch(path, r.pattern)
          [] r.pattern_type = "file" -> fnmatch(filename, r.pattern)
          [] r.pattern_type = "regex" -> re_search(r.pattern, path) # "none"
          [] OTHER -> FALSE

\* one pattern of is_excluded against the path: the three loops, with
\* filename = os.path.basename(path), what follows the last '/'
RuleMatches(r, path) ==
    LET slashes == {i \in 1..Len(path) : path[i] = SLASH}
        filename == IF slashes = {} THEN path
                    ELSE SubSeq(path, (CHOOSE i \in slashes : \A j \in slashes : j <= i) + 1,
                                Len(path))
    IN  CASE r.pattern_type = "directory" -> fnmatch(path, r.pattern)
          [] r.pattern_type = "file" -> fnmatch(filename, r.pattern)
          [] r.pattern_type = "regex" -> re_search(r.pattern, path) = "match"
          [] OTHER -> FALSE

\* the body of PathPattern.is_excluded(cls, session, path), from
\* path = path.replace('\\', '/') on
PathIsExcluded(rules, path) ==
    LET normalized == [i \in 1..Len(path) |-> IF path[i] = "\\" THEN SLASH ELSE path[i]]
    IN  \E r \in get_active_patterns(rules, "exclude") : RuleMatches(r, normalized)

\* PathPattern.is_excluded(session, path, context=...): the method has no
\* context parameter, so a call that passes the keyword raises TypeError
\* before the body runs (the calls of lines 344 and 376 both pass it)
is_excluded(rules, path, context) ==
    IF context # "" THEN "TypeError"
    ELSE IF PathIsExcluded(rules, path) THEN "True" ELSE "False"

\* The rules of the model.  Their patterns: a directory glob on the folder
\* of tag 2, a filename glob, a literal regex and a regex that does not compile
RulePool ==
    LET patterns ==
          { [pattern |-> <<"*", SLASH>> \o full_tag_label_str(2) \o <<SLASH, "*">>,
             pattern_type |-> "directory"],
            [pattern |-> <<"r", "*">>, pattern_type |-> "file"],
            [pattern |-> SegXY, pattern_type |-> "regex"],
            [pattern |-> <<"(">>, pattern_type |-> "regex"] }
    IN  {PathPattern(p.pattern, p.pattern_type, tr, ctx, en) :
            p \in patterns, tr \in {"exclude", "priority"},
            ctx \in {{}} \cup {{c} : c \in ExcludeContexts}, en \in BOOLEAN}

RECURSIVE SubsetsUpTo(_, _)
\* the subsets of S of at most k elements
SubsetsUpTo(S, k) ==
    IF k = 0 THEN {{}}
    ELSE LET smaller == SubsetsUpTo(S, k - 1)
         IN  smaller \cup {T \cup {x} : T \in smaller, x \in S}

\* The tables of at most MaxRules rules (path_patterns.pattern is unique)
Policies ==
    {S \in SubsetsUpTo(RulePool, MaxRules) :
        \A a, b \in S : a.pattern = b.pattern => a = b}

\* The tables a watched batch is run on: no rule, or the enabled directory
\* rule with each of its scopes
BatchPolicies ==
    {{}} \cup {{r} : r \in {x \in RulePool : /\ x.pattern_type = "directory"
                                         /\ x.treatment = "exclude"
                                         /\ x.enabled}}

----------------------------------------------------------------------------
(* The extractors: which one reads a file *)

\* HtmlTextExtractor.file_extensions and EmailTextExtractor.file_extensions
\* (text_extraction/web_extraction): the web and the email formats
HtmlExtensions == {<<"h", "t", "m", "l">>, <<"h", "t", "m">>}
EmailExtensions == {<<"e", "m", "l">>, <<"m", "s", "g">>}

\* The class attribute file_extensions of each extractor
file_extensions ==
    [ pdf_extractor |->
        {<<"p", "d", "f">>},
      txt_extractor |->
        {<<"t", "x", "t">>, <<"m", "d">>, <<"l", "o", "g">>, <<"c", "s", "v">>,
         <<"j", "s", "o", "n">>, <<"x", "m", "l">>, <<"y", "a", "m", "l">>,
         <<"y", "m", "l">>, <<"i", "n", "i">>, <<"c", "f", "g">>, <<"c", "o", "n", "f">>},
      image_extractor |->
        {<<"p", "n", "g">>, <<"j", "p", "g">>, <<"j", "p", "e", "g">>,
         <<"t", "i", "f">>, <<"t", "i", "f", "f">>, <<"b", "m", "p">>, <<"g", "i", "f">>},
      presentation_extractor |->
        {<<"p", "p", "t", "x">>, <<"p", "p", "t", "m">>, <<"p", "p", "s", "x">>,
         <<"p", "p", "t">>, <<"p", "p", "s">>, <<"o", "d", "p">>},
      spreadsheet_extractor |->
        {<<"x", "l", "s", "x">>, <<"x", "l", "s", "m">>, <<"x", "l", "s">>,
         <<"x", "l", "s", "b">>, <<"o", "d", "s">>, <<"c", "s", "v">>, <<"t", "s", "v">>},
      word_extractor |->
        {<<"d", "o", "c", "x">>, <<"d", "o", "c", "m">>, <<"d", "o", "c">>,
         <<"r", "t", "f">>},
      html_extractor |-> HtmlExtensions,
      email_extractor |-> EmailExtensions,
      tika_extractor |->
        {<<"p", "d", "f">>, <<"d", "o", "c">>, <<"d", "o", "c", "x">>,
         <<"p", "p", "t">>, <<"p", "p", "t", "x">>, <<"x", "l", "s">>,
         <<"x", "l", "s", "x">>, <<"r", "t", "f">>, <<"h", "t", "m", "l">>,
         <<"h", "t", "m">>, <<"t", "x", "t">>, <<"c", "s", "v">>, <<"x", "m", "l">>,
         <<"j", "s", "o", "n">>, <<"m", "d">>, <<"p", "n", "g">>, <<"j", "p", "g">>,
         <<"j", "p", "e", "g">>, <<"g", "i", "f">>, <<"t", "i", "f">>,
         <<"t", "i", "f", "f">>, <<"e", "m", "l">>, <<"m", "s", "g">>,
         <<"o", "d", "t">>, <<"o", "d", "s">>} ]

\* extractors_list, in its order
extractors_list ==
    <<"pdf_extractor", "txt_extractor", "image_extractor", "presentation_extractor",
      "spreadsheet_extractor", "word_extractor", "html_extractor", "email_extractor">>

\* Path(file_path).suffix.lower().lstrip("."), where
\*   suffix is the name from its last dot on, unless that dot is the first
\*     or the last character of the name,
\*   lstrip(".") drops the dots the string begins with
file_extension(name) ==
    LET dots == {i \in 1..Len(name) : name[i] = "."}
        i == IF dots = {} THEN 0 ELSE CHOOSE d \in dots : \A e \in dots : e <= d
        suffix == IF 1 < i /\ i < Len(name) THEN SubSeq(name, i, Len(name)) ELSE <<>>
        lowered == Lower(suffix)
        leading == {k \in 0..Len(lowered) : \A j \in 1..k : lowered[j] = "."}
    IN  SubSeq(lowered, (CHOOSE k \in leading : \A m \in leading : m <= k) + 1, Len(lowered))

RECURSIVE LastMatch(_, _, _)
\* A scan that goes on after a match and returns the last one.
LastMatch(ext, extractors, i) ==
    IF i > Len(extractors) THEN "None"
    ELSE LET rest == LastMatch(ext, extractors, i + 1)
         IN  IF rest # "None" THEN rest
             ELSE IF ext \in file_extensions[extractors[i]] THEN extractors[i]
             ELSE "None"

RECURSIVE FirstMatch(_, _, _)
\* for extractor in extractors: if file_extension in extractor.file_extensions:
\* return extractor ... return None
FirstMatch(ext, extractors, i) ==
    IF i > Len(extractors) THEN "None"
    ELSE IF ext \in file_extensions[extractors[i]] THEN extractors[i]
    ELSE FirstMatch(ext, extractors, i + 1)

\* get_extractor_for_file(file_path, extractors)
get_extractor_for_file(name, extractors) == FirstMatch(file_extension(name), extractors, 1)

\* extractor(temp_fp) if extractor else tika_extractor(temp_fp): who is called
Called(name) ==
    LET extractor == get_extractor_for_file(name, extractors_list)
    IN  IF extractor # "None" THEN extractor ELSE "tika_extractor"

\* What the Tika server answers: the detected MIME type is usable or not,
\* and the status of the extraction request
TikaResponses ==
    [mime_usable : BOOLEAN, status : {200, 204, 422, 500}, text : Texts]

\* TikaTextExtractor.__call__: the declared extensions are not looked at
TikaCall(response) ==
    IF ~ response.mime_usable THEN [raises |-> TRUE, text |-> <<>>]
    ELSE IF response.status # 200 THEN [raises |-> TRUE, text |-> <<>>]
    ELSE [raises |-> FALSE, text |-> response.text]

\* The file names of the model: a stem (with a dot in it, or empty), a dot
\* and an extension that is declared by some extractor, spelled with capitals
\* or declared by none; names without a dot, and names that end with one
FileNames ==
    LET stems == {<<"a">>, <<"a", ".", "b">>, <<>>}
        declared == UNION {file_extensions[e] : e \in DOMAIN file_extensions}
        capitals == {<<"C", "S", "V">>, <<"P", "d", "f">>, <<"T", "X", "T">>,
                     <<"H", "T", "M">>, <<"O", "D", "T">>}
        undeclared == {<<"z", "i", "p">>, <<"d", "w", "g">>, <<"Z", "I", "P">>}
    IN  {stem \o <<".">> \o ext :
            stem \in stems, ext \in declared \cup capitals \cup undeclared}
        \cup {<<"a">>, <<"a", ".">>}

----------------------------------------------------------------------------
(* The per-file steps of _run_file_pipeline *)

\* FileContent(file_hash, source_text, text_length=len(text), minilm_model, minilm_emb)
FileContent(f, text) == [file_hash |-> f, text_length |-> Len(text)]

\* A table without its primary key: every insert is accepted.
NoPrimaryKey(cont, row) == FALSE

\* file_contents.file_hash is the primary key: the flush of a second row for
\* the same file raises IntegrityError
ContentPkConflict(cont, row) == \E c \in cont : c.file_hash = row.file_hash

\* A flush without a commit: the row is lost when the session ends.
FlushOnly(cont, row) == cont

\* session.add(fc); session.commit()
SessionCommit(cont, row) == cont \cup {row}

\* What the environment does to one file: which of its locations exist on the
\* mount, what the copy and the extractor give, what encode gives
Extractions == {[raises |-> TRUE, text |-> <<>>]} \cup {[raises |-> FALSE, text |-> t] : t \in Texts}
Encodings == {"vector", "null", "raises"}

\* locator_fn(session, file_obj, server_mount): the index of the resolved location
Locate(md, op, f, present) ==
    IF md = "tag" THEN locate_for_tag(f, op.tag, present)
    ELSE locate_for_location(f, op.target, present)

\* the third value the locator returns: the tag, or the tags inferred from the path
Extra(md, op, f, li) ==
    IF md = "tag" THEN <<op.tag>>
    ELSE PathTags[f][li]

\* One iteration of the for loop, lines 332-386, up to the labeling call:
\* how it ends, and what it passed to encode and to the database
FileStep(md, op, cont, rules, f, present, extraction, encoding) ==
    LET li == Locate(md, op, f, present)
        raw == extraction.text
        text == Normalized[raw]
        row == FileContent(f, text)
        base == [outcome |-> "none", encoded |-> FALSE, rawLen |-> 0, normLen |-> 0,
                 row |-> row, tags |-> <<>>, loc |-> li]
    IN  IF locations(f) = <<>> THEN [base EXCEPT !.outcome = "no_locations"]
        ELSE IF li = 0 THEN [base EXCEPT !.outcome = "not_found"]
        ELSE IF op.apply_exclusions
                /\ is_excluded(rules, local_filepath(locations(f)[li]), "add_files_embedding") = "True"
             THEN [base EXCEPT !.outcome = "excluded"]
        ELSE IF extraction.raises THEN [base EXCEPT !.outcome = "error"]
        ELSE IF ~ TextLongEnough(raw, Threshold)
             THEN [base EXCEPT !.outcome = "too_short", !.rawLen = Len(raw)]
        ELSE IF encoding = "raises"
             THEN [base EXCEPT !.outcome = "error", !.encoded = TRUE,
                               !.rawLen = Len(raw), !.normLen = Len(text)]
        ELSE IF encoding = "null"
             THEN [base EXCEPT !.outcome = "embedding_failed", !.encoded = TRUE,
                               !.rawLen = Len(raw), !.normLen = Len(text)]
        ELSE IF ContentPkConflict(cont, row)
             THEN [base EXCEPT !.outcome = "commit_failed", !.encoded = TRUE,
                               !.rawLen = Len(raw), !.normLen = Len(text)]
        ELSE IF op.apply_exclusions
                /\ is_excluded(rules, local_filepath(locations(f)[li]), "add_files_tagging") = "TypeError"
             THEN [base EXCEPT !.outcome = "tagging_error", !.encoded = TRUE,
                               !.rawLen = Len(raw), !.normLen = Len(text)]
        ELSE IF op.apply_exclusions
                /\ is_excluded(rules, local_filepath(locations(f)[li]), "add_files_tagging") = "True"
             THEN [base EXCEPT !.outcome = "tagging_skipped", !.encoded = TRUE,
                               !.rawLen = Len(raw), !.normLen = Len(text)]
        ELSE [base EXCEPT !.outcome = "embedded", !.encoded = TRUE,
                          !.rawLen = Len(raw), !.normLen = Len(text),
                          !.tags = Extra(md, op, f, li)]

\* Each behaviour of the environment once: what is never looked at is left
\* at one value (no rules when no exclusion check is made, no extraction when
\* no location resolves, no encoding when encode is not called)
Relevant(md, op, rules, f, present, extraction, encoding) ==
    /\ (Locate(md, op, f, present) = 0 \/ ~ op.apply_exclusions) => rules = {}
    /\ Locate(md, op, f, present) = 0 => extraction.raises
    /\ (extraction.raises \/ ~ TextLongEnough(extraction.text, Threshold)) => encoding = "vector"

\* An iteration that labels the file before the commit of its Content row.
CommitAfterLabeling == {"tagging_error", "tagging_skipped"}

\* The outcomes in which lines 371-372 committed the Content row
Committed == {"embedded", "tagging_error", "tagging_skipped"}

----------------------------------------------------------------------------
(* The state at rest, and the states a process starts from *)

NoOpts == [apply_exclusions |-> FALSE, tag |-> None, target |-> <<>>]

NoLast == [op |-> "none", file |-> 0, tag |-> 0,
           outcome |-> "none", rawLen |-> 0, normLen |-> 0, encoded |-> FALSE,
           loc |-> 0, rules |-> {}, context |-> "", result |-> "",
           name |-> <<>>, extractor |-> "", present |-> {}, sep |-> SLASH,
           writes |-> {}, text |-> <<>>, normalized |-> <<>>]

AtRest ==
    /\ pc = "idle"
    /\ mode = "none"
    /\ opts = NoOpts
    /\ files = <<>>
    /\ idx = 0
    /\ extra = <<>>
    /\ session = "closed"

\* The run is over: the with Session(engine) block is left
EndRun ==
    /\ pc' = "idle"
    /\ mode' = "none"
    /\ opts' = NoOpts
    /\ files' = <<>>
    /\ idx' = 0
    /\ extra' = <<>>
    /\ session' = "closed"

\* The rows of a human annotation: the column defaults of is_primary and
\* label_source, and the split the annotator put the row in
HumanRow(f, t) == [FileTagLabel(f, t, TRUE, "human") EXCEPT !.split = "val"]

PriorRowSets ==
    {S \in SUBSET {HumanRow(f, t) : f \in Files, t \in Tags} : Cardinality(S) <= MaxPrior}

\* The Content rows earlier runs have left: at most one per file, each the
\* row of a text that passed the gate
PriorContents ==
    LET rows == {FileContent(f, Normalized[t]) :
                    f \in Files, t \in {x \in Texts : TextLongEnough(x, Threshold)}}
    IN  {S \in SUBSET rows :
            /\ Cardinality(S) <= MaxPrior
            /\ \A a, b \in S : a.file_hash = b.file_hash => a = b}

\* process_files_given_tag up to the call of _run_file_pipeline: the runs it can start
TagRuns(cont, t, n, randomize, exclude_embedded, max_size_mb, apply_exclusions) ==
    {[mode |-> "tag",
      opts |-> [apply_exclusions |-> apply_exclusions, tag |-> t, target |-> <<>>],
      files |-> result] :
        result \in get_files_from_tagged_locations_query(
                      cont, t, n, randomize, exclude_embedded, max_size_mb)}

\* process_files_given_file_server_location up to the call of _run_file_pipeline
\* (the query is called without randomize: its default, False)
LocationRuns(cont, rel_parts, n, exclude_embedded, max_size_mb, apply_exclusions) ==
    {[mode |-> "location",
      opts |-> [apply_exclusions |-> apply_exclusions, tag |-> None,
                target |-> extract_server_dirs(rel_parts)],
      files |-> result] :
        result \in get_files_from_server_locations_query(
                      cont, extract_server_dirs(rel_parts), n, FALSE, exclude_embedded,
                      max_size_mb)}

\* every batch a caller can start on the Content rows cont
Runs(cont) ==
    UNION {TagRuns(cont, t, n, rnd, ee, ms, ae) :
              t \in ImportedTags, n \in Limits, rnd \in BOOLEAN, ee \in BOOLEAN,
              ms \in SizeCaps, ae \in BOOLEAN}
    \cup
    UNION {LocationRuns(cont, rp, n, ee, ms, ae) :
              rp \in ServerLocations, n \in Limits \cup {None}, ee \in BOOLEAN, ms \in SizeCaps,
              ae \in BOOLEAN}

\* _run_file_pipeline has opened its session and is at the top of the for loop
InLoop(run) ==
    /\ pc = "loop"
    /\ mode = run.mode
    /\ opts = run.opts
    /\ files = run.files
    /\ idx = 1
    /\ extra = <<>>
    /\ session = "active"
    /\ last = [NoLast EXCEPT !.op = "select"]

\* with Session(engine) as session: ... files = query.all(): into the for loop
BeginRun(run) ==
    /\ pc' = "loop"
    /\ mode' = run.mode
    /\ opts' = run.opts
    /\ files' = run.files
    /\ idx' = 1
    /\ extra' = <<>>
    /\ session' = "active"
    /\ last' = [NoLast EXCEPT !.op = "select"]

----------------------------------------------------------------------------
(* The actions *)

\* One call of label_file_using_tag from a caller with its own session.
LabelCall(f, t) ==
    /\ pc = "idle"
    /\ labels' = label_file_using_tag(labels, parent, f, t, DefaultLabelSource)
    /\ last' = [NoLast EXCEPT !.op = "label", !.file = f, !.tag = t]
    /\ UNCHANGED <<parent, contents, pc, mode, opts, files, idx, extra, session, writers>>

\* label_file_using_tag is entered by the caller w: current_tag = some_tag
WriterCall(w, f, t) ==
    /\ writers[w].status = "idle"
    /\ writers' = [writers EXCEPT ![w] = [NoWriter EXCEPT !.status = "walking", !.file = f,
                                                          !.tag = t, !.cur = t]]
    /\ UNCHANGED <<parent, labels, contents, pc, mode, opts, files, idx, extra, session, last>>

\* One turn of while current_tag: the query (it autoflushes the rows added
\* so far), the add when no row is found, current_tag = current_tag.parent.
\* Nothing catches the IntegrityError of the flush: the call is left by it.
WriterVisit(w) ==
    LET me == writers[w]
        exists == ExistsLabel(labels (+) SetToBag(me.added), me.file, me.cur)
        record == FileTagLabel(me.file, me.cur, IsPrimaryOf(parent, me.cur, me.tag),
                               DefaultLabelSource)
    IN  /\ me.status = "walking"
        /\ me.cur # None
        /\ ~ FlushWaits(writers, w)
        /\ writers' =
              [writers EXCEPT ![w] =
                 IF FlushFails(labels, me.added \ me.flushed)
                 THEN [me EXCEPT !.status = "raised", !.added = {}, !.flushed = {}]
                 ELSE [me EXCEPT !.flushed = me.added,
                                 !.added = IF exists THEN me.added ELSE me.added \cup {record},
                                 !.cur = parent[me.cur],
                                 !.visited = Append(me.visited, me.cur)]]
        /\ UNCHANGED <<parent, labels, contents, pc, mode, opts, files, idx, extra, session, last>>

\* db_session.commit() after the loop: the flush of what is left, then the
\* rows of the call become visible to the others
WriterCommit(w) ==
    LET me == writers[w]
        fails == FlushFails(labels, me.added \ me.flushed)
    IN  /\ me.status = "walking"
        /\ me.cur = None
        /\ ~ FlushWaits(writers, w)
        /\ labels' = IF fails THEN labels ELSE labels (+) SetToBag(me.added)
        /\ writers' =
              [writers EXCEPT ![w] =
                 IF fails
                 THEN [me EXCEPT !.status = "raised", !.added = {}, !.flushed = {},
                                 !.commits = me.commits + 1]
                 ELSE [me EXCEPT !.status = "returned", !.added = {}, !.flushed = {},
                                 !.commits = me.commits + 1]]
        /\ UNCHANGED <<parent, contents, pc, mode, opts, files, idx, extra, session, last>>

\* process_files_given_tag: the selection, then into _run_file_pipeline
StartTagRun(t, n, randomize, exclude_embedded, max_size_mb, apply_exclusions) ==
    /\ pc = "idle"
    /\ \E run \in TagRuns(contents, t, n, randomize, exclude_embedded, max_size_mb,
                          apply_exclusions) :
          BeginRun(run)
    /\ UNCHANGED <<parent, labels, contents, writers>>

\* process_files_given_file_server_location: the selection, then into _run_file_pipeline
StartLocationRun(rel_parts, n, exclude_embedded, max_size_mb, apply_exclusions) ==
    /\ pc = "idle"
    /\ \E run \in LocationRuns(contents, rel_parts, n, exclude_embedded, max_size_mb,
                               apply_exclusions) :
          BeginRun(run)
    /\ UNCHANGED <<parent, labels, contents, writers>>

\* A step that also writes the row of the file it processes.
AddsTouchTheFile(outcome, records) ==
    IF outcome \in Committed \cup {"commit_failed"} THEN {"file_contents", "files"}
    ELSE IF records # {} THEN {"file_tag_labels"}
    ELSE {}

\* The tables of the objects a step gives to session.add: fc (line 371) when
\* the iteration reaches it, the records of label_file_using_tag (line 169)
\* in a labeling step.  The pipeline has no other add, delete or assignment
\* to a mapped object.
SessionAdds(outcome, records) ==
    IF outcome \in Committed \cup {"commit_failed"} THEN {"file_contents"}
    ELSE IF records # {} THEN {"file_tag_labels"}
    ELSE {}

\* One iteration of the for loop of _run_file_pipeline up to the labeling call.
\* watch: whether the history variable records what the iteration was given;
\* tables: the contents path_patterns can have when the iteration reads it.
ProcessFile(watch, tables) ==
    /\ pc = "loop"
    /\ idx <= Len(files)
    /\ session = "active"
    /\ \E present \in SUBSET DOMAIN locations(files[idx]),
          rules \in tables,
          extraction \in Extractions, encoding \in Encodings :
          LET f == files[idx]
              step == FileStep(mode, opts, contents, rules, f, present, extraction, encoding)
          IN  /\ Relevant(mode, opts, rules, f, present, extraction, encoding)
              /\ contents' = IF step.outcome \in Committed
                             THEN SessionCommit(contents, step.row) ELSE contents
              /\ session' = IF step.outcome = "commit_failed" THEN "deactive" ELSE session
              /\ IF step.outcome = "embedded" /\ step.tags # <<>>
                 THEN pc' = "label" /\ extra' = step.tags /\ idx' = idx
                 ELSE pc' = "loop" /\ extra' = <<>> /\ idx' = idx + 1
              /\ last' = IF watch
                         THEN [NoLast EXCEPT !.op = "file", !.file = f,
                                             !.outcome = step.outcome,
                                             !.rawLen = step.rawLen, !.normLen = step.normLen,
                                             !.encoded = step.encoded,
                                             !.loc = step.loc, !.rules = rules,
                                             !.present = present,
                                             !.writes = SessionAdds(step.outcome, {})]
                         ELSE NoLast
    /\ UNCHANGED <<parent, labels, mode, opts, files, writers>>

\* labeling_fn(session, file_obj, extra): one label_file_using_tag call of
\* _label_for_tag or of the loop of _label_for_location
LabelStep(watch) ==
    /\ pc = "label"
    /\ labels' = label_file_using_tag(labels, parent, files[idx], Head(extra), DefaultLabelSource)
    /\ extra' = Tail(extra)
    /\ IF Tail(extra) = <<>>
       THEN pc' = "loop" /\ idx' = idx + 1
       ELSE pc' = "label" /\ idx' = idx
    /\ last' = IF watch
               THEN [NoLast EXCEPT !.op = "label", !.file = files[idx], !.tag = Head(extra),
                                   !.loc = last.loc,
                                   !.writes = SessionAdds("labeling", BagToSet(labels' (-) labels))]
               ELSE NoLast
    /\ UNCHANGED <<parent, contents, mode, opts, files, session, writers>>

\* The for loop is exhausted: the with Session block ends
FinishRun ==
    /\ pc = "loop"
    /\ idx > Len(files)
    /\ EndRun
    /\ last' = NoLast
    /\ UNCHANGED <<parent, labels, contents, writers>>

\* After a failed flush the session refuses every statement until rollback():
\* line 333 reads file_obj.hash of an expired object outside the try block, the
\* PendingRollbackError leaves _run_file_pipeline and the batch ends
AbortRun ==
    /\ pc = "loop"
    /\ idx <= Len(files)
    /\ session = "deactive"
    /\ EndRun
    /\ last' = [NoLast EXCEPT !.op = "abort", !.file = files[idx]]
    /\ UNCHANGED <<parent, labels, contents, writers>>

\* The process is killed between two commits
Kill ==
    /\ pc \in {"loop", "label"}
    /\ EndRun
    /\ last' = NoLast
    /\ UNCHANGED <<parent, labels, contents, writers>>

----------------------------------------------------------------------------
(* The Label Engine alone: any acyclic taxonomy, any prior human labels *)

InitLabel ==
    /\ parent \in Forests
    /\ writers = NoWriters
    /\ \E S \in PriorRowSets : labels = SetToBag(S)
    /\ contents = {}
    /\ AtRest
    /\ last = NoLast

NextLabel == \E f \in Files, t \in Tags : LabelCall(f, t)

SpecLabel == InitLabel /\ [][NextLabel]_vars

----------------------------------------------------------------------------
(* Any sequence of batch runs and label calls on the imported taxonomy *)

Init ==
    /\ parent = ImportedParent
    /\ writers = NoWriters
    /\ labels = EmptyBag
    /\ contents = {}
    /\ AtRest
    /\ last = NoLast

Next ==
    \/ \E f \in Files, t \in ImportedTags : LabelCall(f, t)
    \/ \E t \in ImportedTags, n \in Limits, rnd \in BOOLEAN, ee \in BOOLEAN, ms \in SizeCaps,
          ae \in BOOLEAN :
          StartTagRun(t, n, rnd, ee, ms, ae)
    \/ \E rp \in ServerLocations, n \in Limits \cup {None}, ee \in BOOLEAN, ms \in SizeCaps,
          ae \in BOOLEAN :
          StartLocationRun(rp, n, ee, ms, ae)
    \/ ProcessFile(FALSE, {{}})
    \/ LabelStep(FALSE)
    \/ FinishRun
    \/ AbortRun
    \/ Kill

Spec == Init /\ [][Next]_vars

----------------------------------------------------------------------------
(* One batch, watched file by file, on the rows earlier batches have left *)

InitRun ==
    /\ parent = ImportedParent
    /\ writers = NoWriters
    /\ labels = EmptyBag
    /\ \E prior \in PriorContents :
          /\ contents = prior
          /\ \E run \in Runs(prior) : InLoop(run)

NextRun ==
    \/ ProcessFile(TRUE, {{}})
    \/ LabelStep(TRUE)
    \/ FinishRun
    \/ AbortRun
    \/ Kill

SpecRun == InitRun /\ [][NextRun]_vars

----------------------------------------------------------------------------
(* The exclusion check alone, as _run_file_pipeline calls it *)

\* a table of rules, the path of a cataloged location and the context the
\* caller names ("": the call is made as the method is declared, without
\* the keyword; such a caller may write the path with backslashes)
InitPolicy ==
    /\ parent = ImportedParent
    /\ writers = NoWriters
    /\ labels = EmptyBag
    /\ contents = {}
    /\ AtRest
    /\ \E rules \in Policies, f \in Files, context \in ExcludeContexts \cup {""} :
          \E i \in DOMAIN locations(f), sep \in {SLASH} \cup (IF context = "" THEN {"\\"} ELSE {}) :
             last = [NoLast EXCEPT !.op = "ask", !.file = f, !.loc = i, !.rules = rules,
                                   !.context = context, !.sep = sep]

\* PathPattern.is_excluded(session, str(local_path), context=...)
CheckExclusion ==
    /\ last.op = "ask"
    /\ LET local_path == local_filepath(locations(last.file)[last.loc])
           path == [i \in 1..Len(local_path) |->
                      IF local_path[i] = SLASH THEN last.sep ELSE local_path[i]]
       IN  last' = [last EXCEPT !.op = "check",
                                !.result = is_excluded(last.rules, path, last.context)]
    /\ UNCHANGED <<parent, labels, contents, pc, mode, opts, files, idx, extra, session, writers>>

NextPolicy == CheckExclusion

SpecPolicy == InitPolicy /\ [][NextPolicy]_vars

----------------------------------------------------------------------------
(* One batch on empty tables, watched file by file, on every table of rules *)

\* a batch started with the default n and exclude_embedded
InitExcl ==
    /\ parent = ImportedParent
    /\ writers = NoWriters
    /\ labels = EmptyBag
    /\ contents = {}
    /\ \E run \in UNION {TagRuns({}, t, DefaultLimit, rnd, TRUE, ms, ae) :
                            t \in ImportedTags, rnd \in BOOLEAN, ms \in SizeCaps,
                            ae \in BOOLEAN}
                  \cup UNION {LocationRuns({}, rp, DefaultLimit, TRUE, ms, ae) :
                                 rp \in ServerLocations, ms \in SizeCaps, ae \in BOOLEAN} :
          InLoop(run)

NextExcl ==
    \/ ProcessFile(TRUE, BatchPolicies)
    \/ LabelStep(TRUE)
    \/ FinishRun

SpecExcl == InitExcl /\ [][NextExcl]_vars

----------------------------------------------------------------------------
(* The extraction of one file alone: lines 354-355 of _run_file_pipeline *)

\* the copy of a file in the temporary directory, under its own name
InitExtract ==
    /\ parent = ImportedParent
    /\ writers = NoWriters
    /\ labels = EmptyBag
    /\ contents = {}
    /\ AtRest
    /\ \E name \in FileNames : last = [NoLast EXCEPT !.op = "copied", !.name = name]

\* extractor = get_extractor_for_file(temp_fp, extractors_list), and the
\* choice of the conditional expression of line 355
SelectExtractor ==
    /\ last.op = "copied"
    /\ last' = [last EXCEPT !.op = "selected", !.extractor = Called(last.name)]
    /\ UNCHANGED <<parent, labels, contents, pc, mode, opts, files, idx, extra, session, writers>>

\* text = extractor(temp_fp) or tika_extractor(temp_fp): an extractor of the
\* list raises or returns a text, Tika does what its server answers
CallExtractor ==
    /\ last.op = "selected"
    /\ \E extraction \in (IF last.extractor = "tika_extractor"
                           THEN {TikaCall(response) : response \in TikaResponses}
                           ELSE Extractions) :
          last' = [last EXCEPT !.op = "extracted",
                               !.outcome = IF extraction.raises THEN "error" ELSE "text",
                               !.rawLen = Len(extraction.text)]
    /\ UNCHANGED <<parent, labels, contents, pc, mode, opts, files, idx, extra, session, writers>>

NextExtract ==
    \/ SelectExtractor
    \/ CallExtractor

SpecExtract == InitExtract /\ [][NextExtract]_vars

----------------------------------------------------------------------------
(* A batch without exclusions that is killed and started again *)

\* The process is killed between two commits and the same call is made
\* again with exclude_embedded=True (the other arguments as in the first
\* call: the default n, no size cap)
KillAndRerun ==
    /\ pc \in {"loop", "label"}
    /\ \E run \in (IF mode = "tag"
                    THEN TagRuns(contents, opts.tag, DefaultLimit, FALSE, TRUE, None,
                                 opts.apply_exclusions)
                    ELSE UNION {LocationRuns(contents, rp, DefaultLimit, TRUE, None,
                                             opts.apply_exclusions) :
                                  rp \in {r \in ServerLocations :
                                             extract_server_dirs(r) = opts.target}}) :
          BeginRun(run)
    /\ UNCHANGED <<parent, labels, contents, writers>>

InitResume ==
    /\ parent = ImportedParent
    /\ writers = NoWriters
    /\ labels = EmptyBag
    /\ contents = {}
    /\ \E run \in UNION {TagRuns({}, t, DefaultLimit, FALSE, ee, None, FALSE) :
                            t \in ImportedTags, ee \in BOOLEAN}
                  \cup UNION {LocationRuns({}, rp, DefaultLimit, ee, None, FALSE) :
                                 rp \in ServerLocations, ee \in BOOLEAN} :
          InLoop(run)

NextResume ==
    \/ ProcessFile(FALSE, {{}})
    \/ LabelStep(FALSE)
    \/ FinishRun
    \/ KillAndRerun

SpecResume == InitResume /\ [][NextResume]_vars

----------------------------------------------------------------------------
(* The claims on the Label Engine, checked under SpecLabel *)

\* the rows of (file f, tag t) in the table tbl
RowsOf(tbl, f, t) == {r \in BagToSet(tbl) : r.file_id = f /\ r.tag = t}

\* the rows a step has inserted into file_tag_labels
Inserted == BagToSet(labels' (-) labels)

\* C1: once label_file_using_tag(file, tag) has returned, calling it again
\* with the same file and tag gives back the table as it is: the second call
\* inserts no row and leaves every row as it was.
C1_SecondCallInsertsNothing ==
    last.op = "label" =>
        label_file_using_tag(labels, parent, last.file, last.tag, DefaultLabelSource) = labels

\* a call on a tag with a parent has returned; it found the human row of the
\* parent and inserted the row of the tag itself
C1_Witness ==
    /\ last.op = "label"
    /\ parent[last.tag] # None
    /\ \E r \in RowsOf(labels, last.file, parent[last.tag]) : r.label_source = "human"
    /\ \E r \in RowsOf(labels, last.file, last.tag) : r.label_source = DefaultLabelSource

\* C2: after label_file_using_tag(file, T) the file has a row for T and for
\* every ancestor of T up to its root, and every row the call inserted is a
\* row of that file for a tag of T's parent chain.
C2_ChainLabeledAndNothingElse ==
    [][last'.op = "label" =>
        /\ \A t \in Chain(parent, last'.tag) : RowsOf(labels', last'.file, t) # {}
        /\ \A r \in Inserted :
              r.file_id = last'.file /\ r.tag \in Chain(parent, last'.tag)]_vars

\* a call on a tag that already had a human row has returned, and it has
\* inserted the missing row of the tag's parent
C2_Witness ==
    /\ last.op = "label"
    /\ parent[last.tag] # None
    /\ \E r \in RowsOf(labels, last.file, last.tag) : r.label_source = "human"
    /\ \E r \in RowsOf(labels, last.file, parent[last.tag]) :
          r.label_source = DefaultLabelSource

\* C3 (as claimed): among the rows one call inserts, the row of the requested
\* tag is primary and every row of an ancestor is not.  The code marks a row
\* primary when its tag has no parent, so the claim fails for every requested
\* tag that is not a root.
C3_RequestedTagIsPrimary ==
    [][last'.op = "label" =>
        \A r \in Inserted : r.is_primary = (r.tag = last'.tag)]_vars

----------------------------------------------------------------------------
(* The claims on sequences of runs and label calls, checked under Spec *)

\* the file has a Content row in cont
HasContent(cont, f) == \E c \in cont : c.file_hash = f

\* C4: whatever label calls and batch runs (tag mode, location mode) have
\* been executed, file_tag_labels holds at most one row per (file, tag) pair.
C4_OneRowPerFileAndTag ==
    \A r \in BagToSet(labels) :
        /\ CopiesIn(r, labels) = 1
        /\ \A q \in BagToSet(labels) : (q.file_id = r.file_id /\ q.tag = r.tag) => q = r

\* a location-mode run is about to label a file with the last of the tags
\* inferred from its path, and the file already has the row of that tag
C4_Witness ==
    /\ pc = "label"
    /\ mode = "location"
    /\ Len(extra) = 1
    /\ RowsOf(labels, files[idx], extra[1]) # {}
    /\ Cardinality({r \in BagToSet(labels) : r.file_id = files[idx]}) = Cardinality(ImportedTags)

\* C8: in every step of every sequence of runs a Content row that exists
\* stays as it is, and no file ever has two Content rows.
C8_ContentCreatedOnce ==
    [][/\ \A c \in contents : c \in contents'
       /\ \A a, b \in contents' : a.file_hash = b.file_hash => a = b]_vars

\* a run without exclude_embedded has taken a file that already had its
\* Content row through extraction and embedding: the insert was refused
C8_Witness ==
    /\ pc = "loop"
    /\ session = "deactive"
    /\ idx > 1
    /\ HasContent(contents, files[idx - 1])

\* C9: on the Content rows of every reachable state, with exclude_embedded
\* both queries return no file that has a Content row, for every tag or
\* subtree, limit, size cap and value of randomize.
C9_ExcludeEmbedded ==
    \A n \in Limits \cup {None}, rnd \in BOOLEAN, ms \in SizeCaps :
        /\ \A t \in ImportedTags :
              \A res \in get_files_from_tagged_locations_query(contents, t, n, rnd, TRUE, ms) :
                 \A i \in DOMAIN res : ~ HasContent(contents, res[i])
        /\ \A d \in TargetDirs :
              \A res \in get_files_from_server_locations_query(contents, d, n, rnd, TRUE, ms) :
                 \A i \in DOMAIN res : ~ HasContent(contents, res[i])

\* one file is embedded and another is not: without exclude_embedded a query
\* returns both, with it the query returns the other file alone
C9_Witness ==
    \E f \in Files, t \in ImportedTags :
        /\ HasContent(contents, f)
        /\ \E res \in get_files_from_tagged_locations_query(contents, t, None, FALSE, FALSE, None) :
              \E i \in DOMAIN res : res[i] = f
        /\ \E res \in get_files_from_tagged_locations_query(contents, t, None, FALSE, TRUE, None) :
              res # <<>>

\* the directory string dirs is the subtree or lies below it at a '/'
InSubtree(dirs, subtree) ==
    dirs = subtree \/ IsPrefix(subtree \o <<SLASH>>, dirs)

\* C19 (as claimed): on the Content rows of every reachable state,
\* process_files_given_file_server_location without a limit selects exactly
\* the files that pass the optional filters and have a Location in the given
\* subtree or below it; a file located only in the parent of the subtree or
\* in a sibling is not selected.  The entry point passes the subtree through
\* extract_server_dirs, which drops its last segment as if it were a file
\* name: the files of the parent directory and of every sibling are selected.
C19_SelectsTheGivenSubtree ==
    \A rp \in ServerLocations, ee \in BOOLEAN, ms \in SizeCaps :
        \A run \in LocationRuns(contents, rp, None, ee, ms, FALSE) :
            {run.files[i] : i \in DOMAIN run.files} =
                {f \in Files :
                    /\ \E i \in DOMAIN locations(f) :
                          InSubtree(locations(f)[i].file_server_directories, JoinPath(rp))
                    /\ (ee => NotEmbedded(contents, f))
                    /\ WithinSize(f, ms)}

----------------------------------------------------------------------------
(* The claims on one batch, checked under SpecRun *)

\* C5 (as claimed): no failure of one file ends the batch: the loop never
\* leaves _run_file_pipeline by an exception while files are left.  A refused
\* commit of the Content row breaks it: the exception is caught, the session
\* stays in its failed transaction, and the next iteration raises outside the
\* try block.
C5_NoFailureEndsTheBatch == last.op # "abort"

\* C6: a file whose extraction gave no text, or a text shorter than the
\* threshold, has no text passed to encode and gets no Content row in the
\* iteration.
C6_ShortTextNotEmbedded ==
    [][(last'.op = "file" /\ last'.rawLen < Threshold) =>
          (~ last'.encoded /\ contents' = contents)]_vars

\* the extractor returned a text one character short of the threshold for
\* the second file of a batch
C6_Witness ==
    /\ last.op = "file"
    /\ last.outcome = "too_short"
    /\ last.rawLen = Threshold - 1
    /\ idx = 3

\* C7 (as claimed): every text passed to encode and every text persisted in a
\* Content row has at least Threshold characters.
C7_EmbeddedTextReachesThreshold ==
    [][(last'.op = "file" /\ last'.encoded) =>
          /\ last'.normLen >= Threshold
          /\ \A c \in contents' \ contents : c.text_length >= Threshold]_vars

\* C7 (amended): every text passed to encode is the normalised form of an
\* extracted text that had at least Threshold characters before it was
\* normalised; the Content row created in the iteration is the row of that
\* file and records the length of the normalised text, which can be below
\* the threshold.
C7_GateIsOnExtractedText ==
    [][(last'.op = "file" /\ last'.encoded) =>
          /\ last'.rawLen >= Threshold
          /\ \A c \in contents' \ contents :
                c.file_hash = last'.file /\ c.text_length = last'.normLen]_vars

\* a text that passed the gate was shortened below the threshold by the
\* normalisation, embedded and persisted
C7_Witness ==
    /\ last.op = "file"
    /\ last.outcome \in Committed
    /\ last.rawLen >= Threshold
    /\ last.normLen < Threshold
    /\ \E c \in contents : c.file_hash = last.file /\ c.text_length = last.normLen

\* C10: no step of a batch removes or changes a committed Content or TagLabel
\* row, whether the step is a later file's failure, the end of the batch or
\* its interruption, and the Content row of a file is in the database as
\* soon as its iteration has passed the commit.
C10_CommittedRowsStay ==
    [][/\ \A c \in contents : c \in contents'
       /\ labels \sqsubseteq labels'
       /\ (last'.op = "file" /\ last'.outcome \in Committed) =>
             HasContent(contents', last'.file)]_vars

\* the first file of the batch has its Content row and its labels, and the
\* second file has just failed
C10_Witness ==
    /\ pc = "loop"
    /\ idx = 3
    /\ last.op = "file"
    /\ last.outcome = "error"
    /\ HasContent(contents, files[1])
    /\ \E r \in BagToSet(labels) : r.file_id = files[1]

\* the locator of the running batch takes location i of file f for a
\* location of the tag or of the subtree
Eligible(f, i) ==
    IF mode = "tag" THEN DirsContainTag[f][i][opts.tag]
    ELSE DirsStartWith[f][i][opts.target]

\* C18: an iteration on a file that has no Locations, or none of whose
\* Locations is at once one the locator takes and a path that exists on the
\* mount, ends in one of the two branches that log a warning and continue:
\* no extractor and no encode call, no row written, and the loop is at the
\* next file.
C18_UnresolvedFileIsSkipped ==
    [][(/\ last'.op = "file"
        /\ \/ locations(last'.file) = <<>>
           \/ \A i \in last'.present : ~ Eligible(last'.file, i)) =>
          /\ last'.outcome \in {"no_locations", "not_found"}
          /\ ~ last'.encoded
          /\ last'.rawLen = 0
          /\ contents' = contents
          /\ labels' = labels
          /\ pc' = "loop"
          /\ idx' = idx + 1
          /\ session' = session]_vars

\* the first file of a tag-mode batch has two Locations under the tag's
\* folder, neither exists on the mount, and the loop is at the second file
C18_Witness ==
    /\ last.op = "file"
    /\ last.outcome = "not_found"
    /\ mode = "tag"
    /\ Cardinality({i \in DOMAIN locations(last.file) : Eligible(last.file, i)}) = 2
    /\ last.present = {}
    /\ idx = 2
    /\ idx <= Len(files)

\* C20 (as claimed): in a location-mode batch the Location the locator
\* resolves has a directory string equal to the target subtree or below it
\* at a '/', its path exists on the mount, and no earlier Location of the
\* file has both properties.  The locator tests startswith(target_dirs)
\* without the '/': a Location in a sibling directory whose name begins with
\* the name of the target is resolved and read.
C20_ResolvedLocationIsInTheSubtree ==
    [][(/\ last'.op = "file"
        /\ mode = "location"
        /\ last'.loc # 0) =>
          LET locs == locations(last'.file)
              inside(j) == InSubtree(locs[j].file_server_directories, opts.target)
          IN  /\ inside(last'.loc)
              /\ last'.loc \in last'.present
              /\ \A j \in 1..(last'.loc - 1) : ~ (inside(j) /\ j \in last'.present)]_vars

----------------------------------------------------------------------------
(* The claims on a killed batch and its second run, checked under SpecResume *)

\* C11 (as claimed): a tag-mode batch that is killed and run again with
\* exclude_embedded ends with the rows of an uninterrupted batch: when the
\* loop is exhausted, every file that has its Content row has the TagLabel
\* rows of the requested tag and of each of its ancestors.  A kill between
\* the commit of the Content row and the commit of the labels breaks it: the
\* second run does not select the file, and its labels are never written.
C11_RerunEqualsUninterruptedRun ==
    [][(pc = "loop" /\ mode = "tag" /\ idx > Len(files) /\ pc' = "idle") =>
          \A f \in Files :
             HasContent(contents', f) =>
                \A t \in Chain(parent, opts.tag) : RowsOf(labels', f, t) # {}]_vars

----------------------------------------------------------------------------
(* The normalisation of an extracted text alone *)

\* The characters of the texts that are normalised here: a letter, the two
\* whitespace characters, a curly quote and an accented letter
NormChars == {"a", SP, NL, "''", "e'"}

\* a text of at most MaxTextLen + 1 characters is extracted
InitNormalize ==
    /\ parent = ImportedParent
    /\ writers = NoWriters
    /\ labels = EmptyBag
    /\ contents = {}
    /\ AtRest
    /\ \E k \in 0..(MaxTextLen + 1) :
          \E text \in [1..k -> NormChars] :
             last = [NoLast EXCEPT !.op = "extracted", !.text = text]

\* lines 357-360 of _run_file_pipeline on the text
ApplyNormalize ==
    /\ last.op = "extracted"
    /\ last' = [last EXCEPT !.op = "normalized", !.normalized = Normalize(last.text)]
    /\ UNCHANGED <<parent, labels, contents, pc, mode, opts, files, idx, extra, session, writers>>

NextNormalize == ApplyNormalize

SpecNormalize == InitNormalize /\ [][NextNormalize]_vars

----------------------------------------------------------------------------
(* Two callers of label_file_using_tag beside each other *)

InitRace ==
    /\ parent \in Forests
    /\ writers = NoWriters
    /\ \E S \in PriorRowSets : labels = SetToBag(S)
    /\ contents = {}
    /\ AtRest
    /\ last = NoLast

NextRace ==
    \/ \E w \in Writers, f \in Files, t \in Tags : WriterCall(w, f, t)
    \/ \E w \in Writers : WriterVisit(w)
    \/ \E w \in Writers : WriterCommit(w)

SpecRace == InitRace /\ [][NextRace]_vars

----------------------------------------------------------------------------
(* One call of label_file_using_tag, turn by turn, on the acyclic taxonomies
   and on those import_filing_codes builds; a turn that can be taken is taken *)

InitWalk ==
    /\ parent \in Forests \cup ImportedTaxonomies
    /\ writers = NoWriters
    /\ \E S \in PriorRowSets : labels = SetToBag(S)
    /\ contents = {}
    /\ AtRest
    /\ last = NoLast

NextWalk ==
    \/ \E f \in Files, t \in Tags : WriterCall("a", f, t)
    \/ WriterVisit("a")
    \/ WriterCommit("a")

SpecWalk ==
    /\ InitWalk
    /\ [][NextWalk]_vars
    /\ WF_vars(WriterVisit("a"))
    /\ WF_vars(WriterCommit("a"))

----------------------------------------------------------------------------
(* The claims on the exclusion check, checked under SpecPolicy *)

\* the path of the location the step l resolved or was given
PathOf(l) == local_filepath(locations(l.file)[l.loc])

\* The answer the exclusion policy is to give: some enabled exclude rule
\* whose context set is empty or holds the context matches the path
ExcludedFor(rules, path, context) ==
    \E r \in get_active_patterns(rules, "exclude") :
        /\ r.metadata = {} \/ context \in r.metadata
        /\ RuleMatches(r, path)

\* C12 (as claimed): for every table of rules and every path, an enabled
\* exclude rule that matches the path and is scoped to the context of the
\* check alone, or to no context, makes the check return true, and a matching
\* rule scoped to the other context alone leaves the result what it is
\* without the rule.  The method has no context parameter: the check raises
\* TypeError whatever the rules are.
C12_ContextsAreIsolated ==
    last.op = "check" =>
        \A r \in get_active_patterns(last.rules, "exclude") :
            RuleMatches(r, PathOf(last)) =>
                /\ r.metadata \in {{}, {last.context}} => last.result = "True"
                /\ r.metadata \in {{c} : c \in ExcludeContexts \ {last.context}} =>
                      last.result = is_excluded(last.rules \ {r}, PathOf(last), last.context)

----------------------------------------------------------------------------
(* The claims on exclusions in a batch, checked under SpecExcl *)

\* the outcomes in which the copy, the extractor or encode failed, or the
\* text was too short
Failures == {"error", "too_short", "embedding_failed", "commit_failed"}

\* an iteration of a batch that applies exclusions has resolved a location
CheckedStep ==
    /\ last'.op = "file"
    /\ opts.apply_exclusions
    /\ last'.loc # 0

\* C13 (as claimed): when the rules exclude the resolved path for the tagging
\* context only and extraction and embedding succeed, the iteration creates
\* the Content row, creates no TagLabel row and takes the branch that logs
\* the skipped tagging at info level.  The tagging check raises TypeError
\* (C12): the row is created and no label is written, but the iteration ends
\* in the except branch, which logs an error.
C13_TaggingExclusionIsLoggedAsInfo ==
    [][(/\ CheckedStep
        /\ ExcludedFor(last'.rules, PathOf(last'), "add_files_tagging")
        /\ ~ ExcludedFor(last'.rules, PathOf(last'), "add_files_embedding")
        /\ last'.outcome \notin Failures) =>
          /\ HasContent(contents', last'.file)
          /\ labels' = labels
          /\ pc' = "loop"
          /\ last'.outcome = "tagging_skipped"]_vars

\* C14 (as claimed): when the rules exclude the resolved path for the
\* embedding context, the iteration ends before the copy: nothing is
\* extracted or encoded and no row is created.  The embedding check raises
\* TypeError (C12), the exception is caught and the file is processed.
C14_EmbeddingExclusionSkipsTheFile ==
    [][(/\ CheckedStep
        /\ ExcludedFor(last'.rules, PathOf(last'), "add_files_embedding")) =>
          /\ last'.outcome = "excluded"
          /\ ~ last'.encoded
          /\ contents' = contents
          /\ labels' = labels]_vars

\* C15 (as claimed): in a tag-mode batch that applies exclusions, a file
\* whose resolved path no rule excludes, that has no Content row, whose text
\* reaches the threshold and whose embedding is not null gets exactly one
\* Content row and is handed to the labeling of the requested tag (which
\* labels the tag and each ancestor, C2).  The tagging check raises TypeError
\* (C12) and the labeling is never called.
C15_DefaultRunEmbedsAndLabels ==
    [][(/\ CheckedStep
        /\ mode = "tag"
        /\ ~ ExcludedFor(last'.rules, PathOf(last'), "add_files_embedding")
        /\ ~ ExcludedFor(last'.rules, PathOf(last'), "add_files_tagging")
        /\ ~ HasContent(contents, last'.file)
        /\ last'.outcome \notin Failures) =>
          /\ Cardinality({c \in contents' : c.file_hash = last'.file}) = 1
          /\ last'.outcome = "embedded"
          /\ pc' = "label"
          /\ extra' = <<opts.tag>>]_vars

----------------------------------------------------------------------------
(* The claims on the choice of the extractor, checked under SpecExtract *)

\* The extension of a file name as the claims describe it: what follows the
\* last dot of the name, lowercased, when the name goes on after that dot
\* and has something before it; no extension otherwise
ExtensionOf(name) ==
    LET cuts == {k \in 2..(Len(name) - 1) :
                    /\ name[k] = "."
                    /\ \A j \in (k + 1)..Len(name) : name[j] # "."}
    IN  IF cuts = {} THEN <<>>
        ELSE Lower(SubSeq(name, (CHOOSE k \in cuts : TRUE) + 1, Len(name)))

\* the positions of extractors_list whose extractor declares the extension
Declaring(ext) ==
    {i \in DOMAIN extractors_list : ext \in file_extensions[extractors_list[i]]}

C17_UndeclaredExtensionFails ==
    (/\ last.op = "extracted"
     /\ Declaring(ExtensionOf(last.name)) = {}
     /\ ExtensionOf(last.name) \notin file_extensions.tika_extractor) =>
        last.outcome = "error"

\* C21 (as claimed): in a location-mode batch, a file that is embedded and
\* that no rule excludes for tagging is handed to the labeling with every
\* tag inferred from its resolved path, and when the labeling of the file
\* is over the file has the rows of every inferred tag and of every
\* ancestor of each.  In a batch that applies exclusions the tagging check
\* raises TypeError (C12) and no inferred tag is labeled.
C21_EveryInferredTagIsLabeled ==
    [][/\ (/\ last'.op = "file"
           /\ mode = "location"
           /\ last'.loc # 0
           /\ last'.outcome \in Committed
           /\ opts.apply_exclusions =>
                 ~ ExcludedFor(last'.rules, PathOf(last'), "add_files_tagging")) =>
             /\ extra' = PathTags[last'.file][last'.loc]
             /\ pc' = IF extra' = <<>> THEN "loop" ELSE "label"
       /\ (/\ last'.op = "label"
           /\ mode = "location"
           /\ pc' = "loop") =>
             \A i \in DOMAIN PathTags[last'.file][last'.loc] :
                \A t \in Chain(parent, PathTags[last'.file][last'.loc][i]) :
                   RowsOf(labels', last'.file, t) # {}]_vars

----------------------------------------------------------------------------
(* The claims on PathPattern.is_excluded as declared, checked under SpecPolicy *)

\* the rule r is to match the location of the check l: a directory glob
\* "*d*" when d occurs in the full path written with forward slashes, a file
\* glob "n*" when the filename of the location starts with n, a regex that
\* compiles when it occurs in the full path
RuleApplies(r, l) ==
    CASE r.pattern_type = "directory" ->
            Contains(PathOf(l), SubSeq(r.pattern, 2, Len(r.pattern) - 1))
      [] r.pattern_type = "file" ->
            IsPrefix(SubSeq(r.pattern, 1, Len(r.pattern) - 1),
                     locations(l.file)[l.loc].filename)
      [] r.pattern_type = "regex" ->
            r.pattern # <<"(">> /\ Contains(PathOf(l), r.pattern)

\* C22: a call of PathPattern.is_excluded(session, path) returns true
\* exactly when a rule that is enabled and has treatment 'exclude' matches
\* the path (directory rule: glob on the full path with forward slashes,
\* file rule: glob on the base filename, regex rule: search in the full
\* path); a disabled rule and a rule of another treatment never exclude.
C22_ExcludedIffAnEnabledExcludeRuleMatches ==
    (last.op = "check" /\ last.context = "") =>
        /\ last.result \in {"True", "False"}
        /\ last.result = "True" <=>
              \E r \in last.rules :
                 r.enabled /\ r.treatment = "exclude" /\ RuleApplies(r, last)

\* a path written with backslashes is excluded by the enabled directory
\* rule although a disabled rule and a priority rule match it too
C22_Witness ==
    /\ last.op = "check"
    /\ last.context = ""
    /\ last.sep = "\\"
    /\ last.result = "True"
    /\ \E r \in last.rules :
          r.enabled /\ r.treatment = "exclude" /\ r.pattern_type = "directory"
    /\ \E r \in last.rules :
          (~ r.enabled \/ r.treatment # "exclude") /\ RuleApplies(r, last)

\* the path as the caller of the check l wrote it
GivenPath(l) == [i \in 1..Len(PathOf(l)) |-> IF PathOf(l)[i] = SLASH THEN l.sep ELSE PathOf(l)[i]]

\* the enabled exclude rules of a table whose regex does not compile
InvalidRules(rules) ==
    {r \in rules : /\ r.enabled
                   /\ r.treatment = "exclude"
                   /\ r.pattern_type = "regex"
                   /\ re_search(r.pattern, <<>>) = "error"}

\* C23: an enabled regex exclusion rule whose pattern is invalid never makes
\* the check fail: the check returns true or false, and it returns what it
\* returns on the table without the invalid rules.
C23_InvalidRegexIsSkipped ==
    (last.op = "check" /\ last.context = "" /\ InvalidRules(last.rules) # {}) =>
        /\ last.result \in {"True", "False"}
        /\ last.result = is_excluded(last.rules \ InvalidRules(last.rules), GivenPath(last), "")

\* a table with an invalid regex and a valid regex that matches: the check
\* has returned true
C23_Witness ==
    /\ last.op = "check"
    /\ last.context = ""
    /\ InvalidRules(last.rules) # {}
    /\ last.result = "True"
    /\ \E r \in last.rules \ InvalidRules(last.rules) :
          r.pattern_type = "regex" /\ r.enabled /\ r.treatment = "exclude"

----------------------------------------------------------------------------
(* The claim on two callers that label the same file, checked under SpecRace *)

\* C24 (as claimed): when two callers of label_file_using_tag insert the
\* same (file, tag) and the second insert hits the primary key, the call of
\* the loser does not fail, and when it has returned the rows of its tag
\* and of each ancestor are committed.  Nothing in label_file_using_tag
\* catches the IntegrityError: the call is left by the exception and the
\* rows it had added are rolled back.
C24_LoserOfTheRaceStillLabels ==
    \A w \in Writers :
       /\ writers[w].status # "raised"
       /\ writers[w].status = "returned" =>
             \A t \in Chain(parent, writers[w].tag) : RowsOf(labels, writers[w].file, t) # {}

----------------------------------------------------------------------------
(* The claim on existing rows, checked under SpecLabel *)

\* C25: label_file_using_tag never updates an existing TagLabel row: the
\* rows a (file, tag) pair has before a call, for the same or a descendant
\* tag and with another label_source, are its rows after the call, with
\* the is_primary, label_source and split they had.
C25_ExistingRowsAreNotUpdated ==
    [][last'.op = "label" =>
          \A f \in Files, t \in Tags :
             RowsOf(labels, f, t) # {} => RowsOf(labels', f, t) = RowsOf(labels, f, t)]_vars

\* a call for a tag that is not a root and has a human row, primary and in
\* the validation split, has added the row of the parent with source 'rule'
C25_Witness ==
    /\ last.op = "label"
    /\ parent[last.tag] # None
    /\ RowsOf(labels, last.file, last.tag) = {HumanRow(last.file, last.tag)}
    /\ \E r \in RowsOf(labels, last.file, parent[last.tag]) :
          r.label_source = DefaultLabelSource /\ r.split = "train"

----------------------------------------------------------------------------
(* The claim on the tables a batch leaves alone, checked under SpecRun *)

----------------------------------------------------------------------------
(* The claim on the normalisation, checked under SpecNormalize *)

----------------------------------------------------------------------------
(* The claim on the order of commit and labeling, checked under SpecRun *)

\* C28: the pipeline inserts TagLabel rows for a file only after the Content
\* row of the file has been committed in the same iteration; a file whose
\* text is too short, whose copy or extraction raised, or for which no
\* vector was stored gets no TagLabel row; and at every moment each file the
\* pipeline has labeled has a Content row.
C28_LabelsFollowTheCommittedContent ==
    [][/\ labels' # labels =>
             /\ pc = "label"
             /\ last.file = files[idx]
             /\ last.op = "file" => last.outcome = "embedded"
             /\ HasContent(contents, files[idx])
             /\ \A r \in Inserted : r.file_id = files[idx]
       /\ (last'.op = "file" /\ last'.outcome \in Failures) =>
             /\ labels' = labels
             /\ pc' # "label"
             /\ idx' = idx + 1
       /\ \A r \in BagToSet(labels') : HasContent(contents', r.file_id)]_vars

\* a file has been labeled right after the iteration committed its Content
\* row, and the file before it failed and has no row
C28_Witness ==
    /\ last.op = "label"
    /\ idx > 1
    /\ HasContent(contents, last.file)
    /\ RowsOf(labels, last.file, last.tag) # {}
    /\ \E i \in 1..(idx - 1) :
          /\ ~ HasContent(contents, files[i])
          /\ \A t \in Tags : RowsOf(labels, files[i], t) = {}

----------------------------------------------------------------------------
(* The claim on the termination of the walk, checked under SpecWalk *)

\* what C29 asks of every state: determine_parent_label gives no parent or a
\* strictly shorter prefix of the code; the call never visits a tag twice,
\* commits nothing before its end and is not left by an exception; when it
\* has returned it has visited the requested tag first, then exactly its
\* ancestors, and has committed once
C29_Safe ==
    /\ \A code \in CodePool :
          LET pl == determine_parent_label(code)
          IN  pl = <<>> \/ (IsPrefix(pl, code) /\ Len(pl) < Len(code))
    /\ LET me == writers["a"]
       IN  /\ \A i, j \in DOMAIN me.visited : me.visited[i] = me.visited[j] => i = j
           /\ me.status = "walking" => me.commits = 0
           /\ me.status # "raised"
           /\ me.status = "returned" =>
                 /\ me.commits = 1
                 /\ me.visited[1] = me.tag
                 /\ {me.visited[i] : i \in DOMAIN me.visited} = Chain(parent, me.tag)

\* C29: label_file_using_tag terminates for every tag of an acyclic
\* taxonomy, and of every taxonomy import_filing_codes builds: it visits the
\* requested tag and each ancestor exactly once, commits once at the end,
\* and a call that has been entered returns.
C29_WalkTerminates ==
    /\ []C29_Safe
    /\ (writers["a"].status = "walking") ~> (writers["a"].status = "returned")

\* on an imported taxonomy in which a parent was imported after its child,
\* a call has returned after three turns
C29_Witness ==
    /\ parent \in ImportedTaxonomies \ Forests
    /\ writers["a"].status = "returned"
    /\ Len(writers["a"].visited) = 3
    /\ writers["a"].commits = 1

----------------------------------------------------------------------------
(* The claim on a failing exclusion check, checked under SpecExcl *)

\* the exclusion check of the step l raises for the context
CheckRaises(l, context) ==
    is_excluded(l.rules, PathOf(l), context) \notin {"True", "False"}

\* C30: an error raised by the exclusion check never aborts the batch and
\* never removes a committed Content row.  When the embedding check raises,
\* the file is processed as if it were not excluded: it is extracted, and
\* embedded when its text reaches the threshold.  When the tagging check
\* raises, the error is caught at the boundary of the file: the file gets no
\* TagLabel row, its Content row stays, and the loop goes on to the next file.
C30_FailingCheckIsContained ==
    [][/\ (CheckedStep /\ CheckRaises(last', "add_files_embedding")) =>
             /\ last'.outcome # "excluded"
             /\ last'.rawLen >= Threshold => last'.encoded
             /\ contents \subseteq contents'
             /\ session' = "active"
             /\ pc' \in {"loop", "label"}
       /\ (/\ CheckedStep
           /\ CheckRaises(last', "add_files_tagging")
           /\ last'.outcome \notin Failures \cup {"excluded"}) =>
             /\ last'.outcome = "tagging_error"
             /\ HasContent(contents', last'.file)
             /\ contents \subseteq contents'
             /\ labels' = labels
             /\ session' = "active"
             /\ pc' = "loop"
             /\ idx' = idx + 1]_vars

\* both checks have raised for a file, its Content row is committed, it has
\* no TagLabel row, and the batch is at the next file with its session active
C30_Witness ==
    /\ last.op = "file"
    /\ opts.apply_exclusions
    /\ last.loc # 0
    /\ CheckRaises(last, "add_files_embedding")
    /\ CheckRaises(last, "add_files_tagging")
    /\ last.outcome = "tagging_error"
    /\ HasContent(contents, last.file)
    /\ \A t \in Tags : RowsOf(labels, last.file, t) = {}
    /\ pc = "loop"
    /\ session = "active"
    /\ idx > 1

====
